---- MODULE Spec2Model ----
(***************************************************************************)
(* Model of the ARGOS credential bridge (src-tauri/src/main.rs): the three *)
(* tauri commands keychain_set, keychain_get and keychain_delete, each a   *)
(* call-through to keyring::Entry, with the result mapped to a             *)
(* KeychainResult record.                                                  *)
(*                                                                         *)
(* The OS secret store is the only state that outlives a call.  The        *)
(* keyring library is modelled by what main.rs relies on: Entry::new gives *)
(* a handle for (service, key) or an error; set_password, get_password and *)
(* delete_credential act on the addressed credential or return an error.   *)
(* Whether the platform fails during a call is an input of the call.       *)
(***************************************************************************)
EXTENDS Naturals, Sequences, FiniteSets, TLC

\* ------------------------------------------------------------------ bounds
NumValues == 2

AllValues == <<"alpha", "bravo", "charlie", "delta">>

\* The (service, key) identities and the secrets the calls are made with.
Addrs == {<<"argos", "token">>, <<"argos", "pin">>}
Values == {AllValues[i] : i \in 1..NumValues}

\* Where the platform fails during one invocation: nowhere, when the entry
\* handle is created, or in the store operation.
Faults == {"none", "new", "op"}

\* ------------------------------------------------------------ Option, Result
None == << >>
Some(x) == <<x>>

Ok(x) == [ok |-> TRUE, val |-> x, err |-> None]
Err(e) == [ok |-> FALSE, val |-> None, err |-> Some(e)]

\* Display of a keyring error, as format!("{}", e) renders it.
Display(e) ==
  CASE e = "NoEntry" -> "No matching entry found in secure storage"
    [] e = "PlatformFailure" -> "Platform secure storage failure"
    [] e = "NoStorageAccess" -> "Couldn't access platform secure storage"

\* One line of the log of library calls an invocation makes.
LibCall(fn, r) == [fn |-> fn, err |-> r.err]

\* ------------------------------------------------------------ keyring::Entry
\* The library as main.rs uses it.  A platform failure makes the call it
\* strikes return Err and leaves the store as it was; get_password and
\* delete_credential also return Err(NoEntry) when nothing is stored.
Entry_new(service, key, f) ==
  IF f = "new" THEN Err("PlatformFailure") ELSE Ok(<<service, key>>)

set_password(st, entry, value, f) ==
  IF f = "op"
  THEN [res |-> Err("NoStorageAccess"), store |-> st]
  ELSE [res |-> Ok(None), store |-> [st EXCEPT ![entry] = Some(value)]]

get_password(st, entry, f) ==
  IF f = "op" THEN Err("NoStorageAccess")
  ELSE IF st[entry] = None THEN Err("NoEntry")
  ELSE Ok(st[entry][1])

delete_credential(st, entry, f) ==
  IF f = "op" THEN [res |-> Err("NoStorageAccess"), store |-> st]
  ELSE IF st[entry] = None THEN [res |-> Err("NoEntry"), store |-> st]
  ELSE [res |-> Ok(None), store |-> [st EXCEPT ![entry] = None]]

\* ------------------------------------------------------------ KeychainResult
KeychainResult(success, value, error) ==
  [success |-> success, value |-> value, error |-> error]

\* What a command hands back to the model: the record it returns, the
\* store it leaves, and the library calls it made.
Outcome(r, st, lib) == [result |-> r, store |-> st, lib |-> lib]

\* ------------------------------------------------------------------- state
VARIABLES
  store,    \* the OS secret store: (service, key) -> Option<String>
  call,     \* the last invocation: command and arguments
  fault,    \* where the platform failed during the last invocation
  result,   \* the KeychainResult the last invocation returned
  lib,      \* the library calls the last invocation made, in order
  before,   \* the store as the last invocation found it
  prior,    \* the operation that preceded the last one on the same (service, key)
  lastOp,   \* per (service, key): the last operation on it and how it ended
  written,  \* the (service, key) pairs some keychain_set has written
  memo      \* an earlier invocation kept for comparison, with its result

vars == <<store, call, fault, result, lib, before, prior, lastOp, written, memo>>

\* ---------------------------------------------------------------- commands
\* Variant of keychain_set: &key handed to set_password in place of &value.
keychain_set_keyAsValue(st, service, key, value, f) ==
  LET n == Entry_new(service, key, f) IN
  IF n.ok
  THEN LET w == set_password(st, n.val, key, f)
           l == <<LibCall("Entry::new", n), LibCall("set_password", w.res)>> IN
       IF w.res.ok
       THEN Outcome(KeychainResult(TRUE, None, None), w.store, l)
       ELSE Outcome(KeychainResult(FALSE, None, Some(Display(w.res.err[1]))), w.store, l)
  ELSE Outcome(KeychainResult(FALSE, None, Some(Display(n.err[1]))), st,
               <<LibCall("Entry::new", n)>>)

\* Variant of keychain_set: the success arm returns value: Some(value).
keychain_set_echo(st, service, key, value, f) ==
  LET n == Entry_new(service, key, f) IN
  IF n.ok
  THEN LET w == set_password(st, n.val, value, f)
           l == <<LibCall("Entry::new", n), LibCall("set_password", w.res)>> IN
       IF w.res.ok
       THEN Outcome(KeychainResult(TRUE, Some(value), None), w.store, l)
       ELSE Outcome(KeychainResult(FALSE, None, Some(Display(w.res.err[1]))), w.store, l)
  ELSE Outcome(KeychainResult(FALSE, None, Some(Display(n.err[1]))), st,
               <<LibCall("Entry::new", n)>>)

\* Variant of keychain_set: a fixed message in place of format!("{}", e).
keychain_set_generic(st, service, key, value, f) ==
  LET n == Entry_new(service, key, f) IN
  IF n.ok
  THEN LET w == set_password(st, n.val, value, f)
           l == <<LibCall("Entry::new", n), LibCall("set_password", w.res)>> IN
       IF w.res.ok
       THEN Outcome(KeychainResult(TRUE, None, None), w.store, l)
       ELSE Outcome(KeychainResult(FALSE, None, Some("Keychain write failed")), w.store, l)
  ELSE Outcome(KeychainResult(FALSE, None, Some(Display(n.err[1]))), st,
               <<LibCall("Entry::new", n)>>)

\* Variant of keychain_set: a failed set_password is attempted once more.
keychain_set_retry(st, service, key, value, f) ==
  LET n == Entry_new(service, key, f) IN
  IF n.ok
  THEN LET w == set_password(st, n.val, value, f)
           l == <<LibCall("Entry::new", n), LibCall("set_password", w.res)>> IN
       IF w.res.ok
       THEN Outcome(KeychainResult(TRUE, None, None), w.store, l)
       ELSE LET w2 == set_password(w.store, n.val, value, f) IN
            Outcome(KeychainResult(w2.res.ok, None,
                                   IF w2.res.ok THEN None ELSE Some(Display(w2.res.err[1]))),
                    w2.store, Append(l, LibCall("set_password", w2.res)))
  ELSE Outcome(KeychainResult(FALSE, None, Some(Display(n.err[1]))), st,
               <<LibCall("Entry::new", n)>>)

\* Variant of keychain_set: Entry::new(&service, "token"), the key ignored.
keychain_set_fixedKey(st, service, key, value, f) ==
  LET n == Entry_new(service, "token", f) IN
  IF n.ok
  THEN LET w == set_password(st, n.val, value, f)
           l == <<LibCall("Entry::new", n), LibCall("set_password", w.res)>> IN
       IF w.res.ok
       THEN Outcome(KeychainResult(TRUE, None, None), w.store, l)
       ELSE Outcome(KeychainResult(FALSE, None, Some(Display(w.res.err[1]))), w.store, l)
  ELSE Outcome(KeychainResult(FALSE, None, Some(Display(n.err[1]))), st,
               <<LibCall("Entry::new", n)>>)

\* fn keychain_set (main.rs:19-39).
keychain_set(st, service, key, value, f) ==
  LET n == Entry_new(service, key, f) IN
  IF n.ok
  THEN LET w == set_password(st, n.val, value, f)
           l == <<LibCall("Entry::new", n), LibCall("set_password", w.res)>> IN
       IF w.res.ok
       THEN Outcome(KeychainResult(TRUE, None, None), w.store, l)
       ELSE Outcome(KeychainResult(FALSE, None, Some(Display(w.res.err[1]))), w.store, l)
  ELSE Outcome(KeychainResult(FALSE, None, Some(Display(n.err[1]))), st,
               <<LibCall("Entry::new", n)>>)

\* Variant of keychain_get: a missing entry read as the empty string.
keychain_get_default(st, service, key, f) ==
  LET n == Entry_new(service, key, f) IN
  IF n.ok
  THEN LET g == get_password(st, n.val, f)
           l == <<LibCall("Entry::new", n), LibCall("get_password", g)>> IN
       IF g.ok
       THEN Outcome(KeychainResult(TRUE, Some(g.val), None), st, l)
       ELSE IF g.err[1] = "NoEntry"
       THEN Outcome(KeychainResult(TRUE, Some(""), None), st, l)
       ELSE Outcome(KeychainResult(FALSE, None, Some(Display(g.err[1]))), st, l)
  ELSE Outcome(KeychainResult(FALSE, None, Some(Display(n.err[1]))), st,
               <<LibCall("Entry::new", n)>>)

\* Variant of keychain_get: the last value read is kept and served again.
keychain_get_cached(st, service, key, f) ==
  IF result.success /\ result.value # None
  THEN Outcome(result, st, << >>)
  ELSE
  LET n == Entry_new(service, key, f) IN
  IF n.ok
  THEN LET g == get_password(st, n.val, f)
           l == <<LibCall("Entry::new", n), LibCall("get_password", g)>> IN
       IF g.ok
       THEN Outcome(KeychainResult(TRUE, Some(g.val), None), st, l)
       ELSE Outcome(KeychainResult(FALSE, None, Some(Display(g.err[1]))), st, l)
  ELSE Outcome(KeychainResult(FALSE, None, Some(Display(n.err[1]))), st,
               <<LibCall("Entry::new", n)>>)

\* fn keychain_get (main.rs:43-63).
keychain_get(st, service, key, f) ==
  LET n == Entry_new(service, key, f) IN
  IF n.ok
  THEN LET g == get_password(st, n.val, f)
           l == <<LibCall("Entry::new", n), LibCall("get_password", g)>> IN
       IF g.ok
       THEN Outcome(KeychainResult(TRUE, Some(g.val), None), st, l)
       ELSE Outcome(KeychainResult(FALSE, None, Some(Display(g.err[1]))), st, l)
  ELSE Outcome(KeychainResult(FALSE, None, Some(Display(n.err[1]))), st,
               <<LibCall("Entry::new", n)>>)

\* Variant of keychain_delete: get_password called in place of delete_credential.
keychain_delete_probe(st, service, key, f) ==
  LET n == Entry_new(service, key, f) IN
  IF n.ok
  THEN LET g == get_password(st, n.val, f)
           l == <<LibCall("Entry::new", n), LibCall("get_password", g)>> IN
       IF g.ok
       THEN Outcome(KeychainResult(TRUE, None, None), st, l)
       ELSE Outcome(KeychainResult(FALSE, None, Some(Display(g.err[1]))), st, l)
  ELSE Outcome(KeychainResult(FALSE, None, Some(Display(n.err[1]))), st,
               <<LibCall("Entry::new", n)>>)

\* Variant of keychain_delete: a missing entry counts as success, its message kept.
keychain_delete_lenient(st, service, key, f) ==
  LET n == Entry_new(service, key, f) IN
  IF n.ok
  THEN LET d == delete_credential(st, n.val, f)
           l == <<LibCall("Entry::new", n), LibCall("delete_credential", d.res)>> IN
       IF d.res.ok
       THEN Outcome(KeychainResult(TRUE, None, None), d.store, l)
       ELSE Outcome(KeychainResult(d.res.err[1] = "NoEntry", None,
                                   Some(Display(d.res.err[1]))), d.store, l)
  ELSE Outcome(KeychainResult(FALSE, None, Some(Display(n.err[1]))), st,
               <<LibCall("Entry::new", n)>>)

\* Variant of keychain_delete: the result of delete_credential is ignored.
keychain_delete_swallow(st, service, key, f) ==
  LET n == Entry_new(service, key, f) IN
  IF n.ok
  THEN LET d == delete_credential(st, n.val, f)
           l == <<LibCall("Entry::new", n), LibCall("delete_credential", d.res)>> IN
       Outcome(KeychainResult(TRUE, None, None), d.store, l)
  ELSE Outcome(KeychainResult(FALSE, None, Some(Display(n.err[1]))), st,
               <<LibCall("Entry::new", n)>>)

\* fn keychain_delete (main.rs:67-87).
keychain_delete(st, service, key, f) ==
  LET n == Entry_new(service, key, f) IN
  IF n.ok
  THEN LET d == delete_credential(st, n.val, f)
           l == <<LibCall("Entry::new", n), LibCall("delete_credential", d.res)>> IN
       IF d.res.ok
       THEN Outcome(KeychainResult(TRUE, None, None), d.store, l)
       ELSE Outcome(KeychainResult(FALSE, None, Some(Display(d.res.err[1]))), d.store, l)
  ELSE Outcome(KeychainResult(FALSE, None, Some(Display(n.err[1]))), st,
               <<LibCall("Entry::new", n)>>)

\* ------------------------------------------------------------ the bridge
NoCall == [op |-> "none", service |-> "", key |-> "", value |-> None]
NoOp == [op |-> "none", success |-> FALSE, value |-> None]
NoMemo == [call |-> NoCall, fault |-> "none", content |-> None,
           result |-> KeychainResult(FALSE, None, None), same |-> FALSE]

Invocation(op, a, value) == [op |-> op, service |-> a[1], key |-> a[2], value |-> value]
Addr(c) == <<c.service, c.key>>

\* The store operations among the library calls of a log.
StoreOps(l) == {i \in 1..Len(l) : l[i].fn # "Entry::new"}
Wrote(l) == \E i \in 1..Len(l) : l[i].fn = "set_password" /\ l[i].err = None

Init ==
  /\ store \in [Addrs -> {None} \cup {Some(v) : v \in Values}]
  /\ call = NoCall
  /\ fault = "none"
  /\ result = KeychainResult(FALSE, None, None)
  /\ lib = << >>
  /\ before = store
  /\ prior = NoOp
  /\ lastOp = [a \in Addrs |-> NoOp]
  /\ written = {a \in Addrs : store[a] # None}
  /\ memo = NoMemo

\* The invocation c, made while the platform fails at f, ended as r.
Returns(c, f, r) ==
  /\ store' = r.store
  /\ call' = c
  /\ fault' = f
  /\ result' = r.result
  /\ lib' = r.lib
  /\ before' = store

\* The bookkeeping per (service, key) of what was done to it.
Recorded(c, r) ==
  /\ prior' = lastOp[Addr(c)]
  /\ lastOp' = [lastOp EXCEPT ![Addr(c)] =
                  [op |-> c.op, success |-> r.result.success,
                   value |-> IF r.result.success THEN c.value ELSE None]]
  /\ written' = IF Wrote(r.lib) THEN written \cup {Addr(c)} ELSE written
  /\ memo' = memo

\* The invocation before this one may be kept for comparison with later ones;
\* same tells that the store was found unchanged by every invocation since.
Observed ==
  /\ \/ /\ call.op # "none"
        /\ memo' = [call |-> call, fault |-> fault, content |-> before[Addr(call)],
                    result |-> result, same |-> before = store]
     \/ memo' = [memo EXCEPT !.same = memo.same /\ before = store]
  /\ UNCHANGED <<prior, lastOp, written>>

KeychainSet ==
  \E a \in Addrs, v \in Values, f \in Faults :
    LET c == Invocation("set", a, Some(v))
        r == keychain_set(store, a[1], a[2], v, f) IN
    Returns(c, f, r) /\ Recorded(c, r)

KeychainGet ==
  \E a \in Addrs, f \in Faults :
    LET c == Invocation("get", a, None)
        r == keychain_get(store, a[1], a[2], f) IN
    Returns(c, f, r) /\ Recorded(c, r)

KeychainDelete ==
  \E a \in Addrs, f \in Faults :
    LET c == Invocation("delete", a, None)
        r == keychain_delete(store, a[1], a[2], f) IN
    Returns(c, f, r) /\ Recorded(c, r)

Next == KeychainSet \/ KeychainGet \/ KeychainDelete

Spec == Init /\ [][Next]_vars

KeychainSetObserved ==
  \E a \in Addrs, v \in Values, f \in Faults :
    LET c == Invocation("set", a, Some(v))
        r == keychain_set(store, a[1], a[2], v, f) IN
    Returns(c, f, r) /\ Observed

KeychainGetObserved ==
  \E a \in Addrs, f \in Faults :
    LET c == Invocation("get", a, None)
        r == keychain_get(store, a[1], a[2], f) IN
    Returns(c, f, r) /\ Observed

KeychainDeleteObserved ==
  \E a \in Addrs, f \in Faults :
    LET c == Invocation("delete", a, None)
        r == keychain_delete(store, a[1], a[2], f) IN
    Returns(c, f, r) /\ Observed

NextObserved == KeychainSetObserved \/ KeychainGetObserved \/ KeychainDeleteObserved

SpecObserved == Init /\ [][NextObserved]_vars

\* ------------------------------------------------------------- properties
Called == call.op # "none"
SetBefore == prior.op = "set" /\ prior.success
PlatformTexts == {Some(Display("PlatformFailure")), Some(Display("NoStorageAccess"))}
Failed(l) == \E i \in 1..Len(l) : l[i].err # None

\* C1 as stated: after a successful keychain_set(service, key, value), the
\* next operation on (service, key), if it is a keychain_get, returns
\* success=true with exactly that value.
C1_SetThenGetAlways ==
  (call.op = "get" /\ SetBefore) => result = KeychainResult(TRUE, prior.value, None)

\* C1 as amended: the keychain_get returns success=true with exactly the
\* value set unless the platform fails during the get itself, and then it
\* returns success=false, no value and the platform's error text.
C1_SetThenGet ==
  (call.op = "get" /\ SetBefore) =>
     IF fault = "none"
     THEN result = KeychainResult(TRUE, prior.value, None)
     ELSE ~result.success /\ result.value = None /\ result.error \in PlatformTexts

C1_Witness ==
  /\ call.op = "get" /\ SetBefore /\ fault = "none"
  /\ result.success /\ result.value = prior.value
  /\ \E b \in Addrs \ {Addr(call)} : lastOp[b].op # "none"

C3_GetNeverWritten ==
  (call.op = "get" /\ Addr(call) \notin written) =>
     ~result.success /\ result.value = None /\ result.error # None

C3_Witness ==
  /\ call.op = "get" /\ Addr(call) \notin written /\ fault = "none"
  /\ \E b \in Addrs \ {Addr(call)} : lastOp[b].op = "set" /\ lastOp[b].success
  /\ ~result.success /\ result.error = Some(Display("NoEntry"))

\* C4: in every result record, success=true implies error=None.
C4_SuccessHasNoError ==
  Called => (result.success => result.error = None)

C4_Witness ==
  call.op = "delete" /\ result.success /\ result.error = None /\ store # before

\* C5: a successful keychain_get carries Some(the stored string); keychain_set
\* and keychain_delete carry value=None on every path.
C5_ValueShape ==
  /\ (call.op = "get" /\ result.success) =>
        (result.value # None /\ result.value = before[Addr(call)])
  /\ call.op \in {"set", "delete"} => result.value = None

C5_Witness ==
  /\ call.op = "get" /\ result.success
  /\ result.value = before[Addr(call)] /\ prior.op = "none"

\* C6: every failure of a library call, in Entry::new or in the store
\* operation, comes back as success=false with error=Some(string).
C6_FailuresReported ==
  (Called /\ Failed(lib)) =>
     ~result.success /\ result.error # None /\ Len(result.error) = 1

C6_Witness ==
  /\ call.op = "delete" /\ Len(lib) = 2 /\ lib[2].err = Some("NoEntry")
  /\ ~result.success /\ result.error # None

\* C7: the error string of a failed call is exactly the text of the library
\* error that made it fail, from Entry::new and from the store operation alike.
C7_ErrorTextVerbatim ==
  (Called /\ ~result.success) =>
     /\ Len(lib) >= 1
     /\ lib[Len(lib)].err # None
     /\ result.error = Some(Display(lib[Len(lib)].err[1]))

C7_Witness ==
  /\ call.op = "set" /\ ~result.success /\ Len(lib) = 2
  /\ result.error = Some("Couldn't access platform secure storage")

\* C8: an invocation makes at most one store operation; none when Entry::new
\* failed; and a failed store operation is not attempted again.
C8_AtMostOneStoreOp ==
  Called =>
     /\ Cardinality(StoreOps(lib)) <= 1
     /\ Cardinality({i \in 1..Len(lib) : lib[i].fn = "Entry::new"}) <= 1
     /\ (Len(lib) >= 1 /\ lib[1].err # None) => StoreOps(lib) = {}

C8_Witness ==
  /\ call.op = "set" /\ fault = "op"
  /\ Cardinality(StoreOps(lib)) = 1 /\ lib[2].err # None
  /\ store = before

\* C9 as stated: two invocations with the same arguments that find the same
\* store contents return the same result.
C9_SameStoreSameResult ==
  (memo.call # NoCall /\ memo.call = call /\ memo.same) => memo.result = result

\* C9 as amended: two invocations with the same arguments, the same stored
\* credential under their (service, key) and the same outcome of the platform
\* calls return the same result, whatever was called in between.
C9_NoBridgeState ==
  (memo.call # NoCall /\ memo.call = call /\ memo.fault = fault
     /\ memo.content = before[Addr(call)]) => memo.result = result

C9_Witness ==
  /\ memo.call # NoCall /\ memo.call = call /\ memo.fault = fault
  /\ memo.content = before[Addr(call)] /\ ~memo.same
  /\ call.op = "get" /\ result.success /\ memo.result = result

\* C10: keychain_get leaves the store as it found it; keychain_set and
\* keychain_delete change at most the credential under their (service, key);
\* a call whose Entry::new failed changes nothing.
C10_Frame ==
  Called =>
     /\ call.op = "get" => store = before
     /\ \A b \in Addrs \ {Addr(call)} : store[b] = before[b]
     /\ (Len(lib) >= 1 /\ lib[1].err # None) => store = before

C10_Witness ==
  /\ call.op = "set" /\ store # before
  /\ \E b \in Addrs \ {Addr(call)} : store[b] # None /\ store[b] = before[b]

====
